---- MODULE Spec2Model ----
(***************************************************************************)
(* Natural-language command router of the Task Management Assistant        *)
(* (src/streamlit-app/app.py): the retry wrapper around the language-model *)
(* call, the keyword fallback matcher, the tool-descriptor cache of        *)
(* EnhancedMCPClient and the router process_gemini_request_enhanced.       *)
(*                                                                         *)
(* Text is modelled as a sequence of one-character strings, so that        *)
(* str.lower, the `in` substring test, str.replace and str.strip are       *)
(* computed character by character as Python computes them.                *)
(***************************************************************************)
EXTENDS Integers, Sequences, FiniteSets, TLC

(***************************************************************************)
(* Bounds of the model.                                                    *)
(***************************************************************************)
\* largest max_retries a wrapped operation is decorated with
MaxRetries == 3
\* largest number of chunks an utterance of the fallback matcher is made of
MaxChunks == 3

(***************************************************************************)
(* Python str operations on character sequences.                           *)
(***************************************************************************)
UpperCase == <<"A","B","C","D","E","F","G","H","I","J","K","L","M",
               "N","O","P","Q","R","S","T","U","V","W","X","Y","Z">>
LowerCase == <<"a","b","c","d","e","f","g","h","i","j","k","l","m",
               "n","o","p","q","r","s","t","u","v","w","x","y","z">>

\* one character of str.lower()
LowerChar(c) ==
    IF \E i \in 1..26 : UpperCase[i] = c
    THEN LowerCase[CHOOSE i \in 1..26 : UpperCase[i] = c]
    ELSE c

\* str.lower()
Lower(s) == [i \in 1..Len(s) |-> LowerChar(s[i])]

\* s.startswith(pat) applied to the suffix of s that begins at index i
MatchAt(s, i, pat) ==
    /\ i + Len(pat) - 1 <= Len(s)
    /\ \A j \in 1..Len(pat) : s[i + j - 1] = pat[j]

\* pat in s
Contains(s, pat) == \E i \in 1..(Len(s) + 1) : MatchAt(s, i, pat)

\* s.replace(old, ''), old non-empty: leftmost non-overlapping occurrences
RECURSIVE Replace(_, _)
Replace(s, old) ==
    IF Len(s) < Len(old) THEN s
    ELSE IF MatchAt(s, 1, old)
         THEN Replace(SubSeq(s, Len(old) + 1, Len(s)), old)
         ELSE <<s[1]>> \o Replace(Tail(s), old)

IsSpace(c) == c \in {" ", "\n", "\t"}

\* str.strip()
RECURSIVE LStrip(_)
LStrip(s) == IF s # <<>> /\ IsSpace(s[1]) THEN LStrip(Tail(s)) ELSE s
RECURSIVE RStrip(_)
RStrip(s) ==
    IF s # <<>> /\ IsSpace(s[Len(s)])
    THEN RStrip(SubSeq(s, 1, Len(s) - 1))
    ELSE s
Strip(s) == RStrip(LStrip(s))

(***************************************************************************)
(* with_retry: rate-limit classification and backoff.                      *)
(***************************************************************************)
kw_429 == <<"4","2","9">>
kw_quota_exceeded == <<"q","u","o","t","a"," ","e","x","c","e","e","d","e","d">>
kw_rate_limit == <<"r","a","t","e","_","l","i","m","i","t">>

\* messages of the exceptions the wrapped operation raises
msg_429 == <<"4","2","9"," ","T","o","o"," ","M","a","n","y">>
msg_quota == <<"Q","u","o","t","a"," ","E","x","c","e","e","d","e","d">>
msg_rate_limit == <<"R","A","T","E","_","L","I","M","I","T">>
msg_rate_space == <<"r","a","t","e"," ","l","i","m","i","t">>
msg_timeout == <<"D","e","a","d","l","i","n","e"," ","e","x","c","e","e","d","e","d">>
msg_unavailable == <<"5","0","3"," ","u","n","a","v","a","i","l","a","b","l","e">>

ErrorMessages ==
    {msg_429, msg_quota, msg_rate_limit, msg_rate_space, msg_timeout, msg_unavailable}

\* the condition of line 38 on error_str = str(e).lower()
\* (as if written `'429' or 'quota exceeded' in error_str`)
IsRateLimitTruthy(msg) ==
    LET error_str == Lower(msg)
    IN  TRUE \/ Contains(error_str, kw_quota_exceeded)
IsRateLimit(msg) ==
    LET error_str == Lower(msg)
    IN  \/ Contains(error_str, kw_429)
        \/ Contains(error_str, kw_quota_exceeded)
        \/ Contains(error_str, kw_rate_limit)

\* Time is counted in ticks of 1/TimeScale second, so that the powers of the
\* backoff factors below are whole numbers of ticks.
TimeScale == 2 ^ MaxRetries
Seconds(n) == n * TimeScale

\* backoff factors as fractions <<numerator, denominator>>; 1.5 is the default
\* of with_retry and the one call_gemini_with_retry runs with
DefaultBackoff == <<3, 2>>
BackoffFactors == {DefaultBackoff, <<2, 1>>}

\* random.uniform(0, 1)
Jitters == {0, TimeScale \div 2, TimeScale}

\* backoff_time = (backoff_factor ** attempt) + random.uniform(0, 1)
BackoffTimeLinear(bf, att, jitter) ==
    ((bf[1] * att * TimeScale) \div bf[2]) + jitter
BackoffTime(bf, att, jitter) ==
    (((bf[1] ^ att) * TimeScale) \div (bf[2] ^ att)) + jitter

\* the condition of line 39: this is not the last attempt
AttemptsRemainOffByOne(att, mr) == att < mr
AttemptsRemain(att, mr) == att < mr - 1

\* time.time() when the program starts; the clock is far from 0
StartTime == Seconds(1000)

\* the value returned when the retries are exhausted (line 47)
RateLimited == [action |-> "rate_limited", response |-> "Rate limit exceeded. Try again later."]

(***************************************************************************)
(* Texts returned by the language model.  The content of a JSON object is  *)
(* abbreviated to one letter (see Payload); fences, braces, newlines and   *)
(* prose are spelled out.                                                  *)
(***************************************************************************)
\* the backquote character
BQ == "bq"

txt_chat == <<"{","c","}">>
txt_list == <<" ","{","l","}","\n">>
txt_delete == <<"{","d","}">>
txt_create == <<"{","t","}">>
txt_fenced_json == <<BQ,BQ,BQ,"j","s","o","n","\n","{","d","}","\n",BQ,BQ,BQ>>
txt_fenced_bare == <<BQ,BQ,BQ,"\n","{","l","}","\n",BQ,BQ,BQ>>
txt_prose == <<"s","o","r","r","y">>
txt_array == <<"[","]">>

ModelTexts ==
    {txt_chat, txt_list, txt_delete, txt_create, txt_fenced_json,
     txt_fenced_bare, txt_prose, txt_array}

\* further texts: tool calls that lack something, the empty object, values
\* that are not objects, and texts that are no JSON value
txt_untitled == <<"{","u","}">>
txt_no_tool == <<"{","n","}">>
txt_empty_tool == <<BQ,BQ,BQ,"\n","{","e","}","\n",BQ,BQ,BQ>>
txt_empty_object == <<"{","}">>
txt_number == <<"4","2">>
txt_null == <<BQ,BQ,BQ,"j","s","o","n","\n","n","u","l","l","\n",BQ,BQ,BQ>>
txt_string == <<"\"","o","k","\"">>
txt_items == <<"[","4",","," ","2","]">>
txt_two_objects == <<"{","c","}","\n","{","c","}">>
txt_unclosed == <<BQ,BQ,BQ,"j","s","o","n","\n","{","c">>
txt_fence_only == <<BQ,BQ,BQ>>
MoreModelTexts ==
    {txt_untitled, txt_no_tool, txt_empty_tool, txt_empty_object, txt_number,
     txt_null, txt_string, txt_items, txt_two_objects, txt_unclosed, txt_fence_only}

\* what one invocation of the wrapped operation does: it returns a text or
\* raises an exception with a message
FuncOutcomes ==
    {[kind |-> "ok", text |-> t] : t \in ModelTexts}
        \cup {[kind |-> "err", msg |-> m] : m \in ErrorMessages}

(***************************************************************************)
(* The backend: POST /tools/{name} through call_tool.                      *)
(***************************************************************************)
\* JSON objects the backend replies with: the keys present and the values of
\* the keys the router reads
Reply(keys, error, message) == [keys |-> keys, error |-> error, message |-> message]
NoReply == Reply({}, "", "")
Replies ==
    {Reply({"tasks"}, "", ""),
     Reply({"message", "task"}, "", "Task created"),
     Reply({"error"}, "Task not found", ""),
     Reply({"error", "message"}, "Invalid priority", "Validation failed"),
     Reply({"message"}, "", "Task deleted"),
     Reply({"message", "task"}, "", ""),
     NoReply}

\* requests.post raising a requests.RequestException, or raise_for_status
\* (for one, on the status 429)
RequestFailures ==
    {"ConnectionError", "Timeout", "HTTPError", "429 Client Error: Too Many Requests"}

BackendOutcomes ==
    {[kind |-> "reply", reply |-> r] : r \in Replies}
        \cup {[kind |-> "fail", exc |-> e] : e \in RequestFailures}

\* parameter objects sent to a tool
NoParams == [keys |-> {}, title |-> <<>>, priority |-> ""]
CreateParams(title, priority) ==
    [keys |-> {"title", "priority"}, title |-> title, priority |-> priority]

Post(tool_name, parameters) ==
    [method |-> "POST", path |-> "/tools/" \o tool_name, tool |-> tool_name, json |-> parameters]

\* call_tool: one POST; the reply is returned, a RequestException is raised
\* again as Exception("Failed to call tool ...")
call_tool(tool_name, parameters, bo) ==
    [sent |-> <<Post(tool_name, parameters)>>,
     raised |-> bo.kind = "fail",
     reply |-> IF bo.kind = "reply" THEN bo.reply ELSE NoReply,
     exc |-> IF bo.kind = "fail"
             THEN [fmt |-> "Failed to call tool {tool_name}: {e}", tool |-> tool_name, e |-> bo.exc]
             ELSE [fmt |-> ""]]

(***************************************************************************)
(* What a handler hands back to its caller.                                *)
(***************************************************************************)
\* a returned dict: its keys and the values of the keys
Result(keys, action, response, tool_result, mode) ==
    [raised |-> FALSE, keys |-> keys, action |-> action, response |-> response,
     tool_result |-> tool_result, mode |-> mode, exc |-> [fmt |-> ""]]
\* {"action": ..., "response": ...}
ActionResponse(action, response) ==
    Result({"action", "response"}, action, response, NoReply, "")
\* {"action": "tool_result", "response": ..., "tool_result": ...}
ToolResult(response, tool_result) ==
    Result({"action", "response", "tool_result"}, "tool_result", response, tool_result, "")
\* an exception that leaves the handler
Raises(exc) ==
    [raised |-> TRUE, keys |-> {}, action |-> "", response |-> [fmt |-> ""],
     tool_result |-> NoReply, mode |-> "", exc |-> exc]
NoResult == Result({}, "", [fmt |-> ""], NoReply, "")

(***************************************************************************)
(* process_fallback_request: the keyword matcher.                          *)
(***************************************************************************)
kw_list == <<"l","i","s","t">>
kw_show == <<"s","h","o","w">>
kw_display == <<"d","i","s","p","l","a","y">>
kw_all == <<"a","l","l">>
kw_task == <<"t","a","s","k">>
kw_create == <<"c","r","e","a","t","e">>
kw_add == <<"a","d","d">>
kw_new == <<"n","e","w">>
kw_stats == <<"s","t","a","t","s">>
kw_statistics == <<"s","t","a","t","i","s","t","i","c","s">>
kw_summary == <<"s","u","m","m","a","r","y">>
ph_create_task == <<"c","r","e","a","t","e"," ","t","a","s","k">>
ph_add_task == <<"a","d","d"," ","t","a","s","k">>
ph_new_task == <<"n","e","w"," ","t","a","s","k">>

\* any(word in s for word in words)
AnyWordIn(words, s) == \E word \in words : Contains(s, word)

\* try: result = mcp_client.call_tool(...); return {... "tool_result": result}
\* except Exception as e: return {"action": "error", "response": f"...{e}"}
FallbackCallUnguarded(tool_name, parameters, bo, response, errfmt) ==
    LET r == call_tool(tool_name, parameters, bo)
    IN  [sent |-> r.sent,
         result |-> IF r.raised THEN Raises(r.exc) ELSE ToolResult(response, r.reply)]
FallbackCall(tool_name, parameters, bo, response, errfmt) ==
    LET r == call_tool(tool_name, parameters, bo)
    IN  [sent |-> r.sent,
         result |-> IF r.raised
                    THEN ActionResponse("error", [fmt |-> errfmt, cause |-> r.exc])
                    ELSE ToolResult(response, r.reply)]

\* line 79: the title of the task to create
FallbackTitle(user_input) ==
    Strip(Replace(Replace(Replace(user_input, ph_create_task), ph_add_task), ph_new_task))

\* the conditions of lines 66, 77 and 96
IsListRequest(user_input_lower) ==
    AnyWordIn({kw_list, kw_show, kw_display, kw_all}, user_input_lower)
        /\ Contains(user_input_lower, kw_task)
IsCreateRequest(user_input_lower) ==
    AnyWordIn({kw_create, kw_add, kw_new}, user_input_lower)
        /\ Contains(user_input_lower, kw_task)
IsStatsRequest(user_input_lower) ==
    AnyWordIn({kw_stats, kw_statistics, kw_summary}, user_input_lower)

AskForTitle ==
    ActionResponse("chat", [fmt |-> "Please specify a task title. Example: 'create task: Deploy new feature'"])
FallbackHelp ==
    ActionResponse("chat", [fmt |-> "I'm in fallback mode due to API limits. You can: ..."])

\* The whole of process_fallback_request for one utterance and one outcome of
\* the backend call it may make: the requests sent and the value returned.
process_fallback_request_CreateFirst(user_input, bo) ==
    LET user_input_lower == Lower(user_input)
        title == FallbackTitle(user_input)
    IN  IF IsCreateRequest(user_input_lower)
        THEN IF title = <<>>
             THEN [sent |-> <<>>, result |-> AskForTitle]
             ELSE FallbackCall("create_task", CreateParams(title, "medium"), bo,
                               [fmt |-> "Task created: {title} (fallback mode)", title |-> title],
                               "Error creating task: {e}")
        ELSE IF IsListRequest(user_input_lower)
        THEN FallbackCall("list_tasks", NoParams, bo,
                          [fmt |-> "Here are your tasks (fallback mode):"],
                          "Error listing tasks: {e}")
        ELSE IF IsStatsRequest(user_input_lower)
        THEN FallbackCall("get_task_stats", NoParams, bo,
                          [fmt |-> "Task statistics (fallback mode):"],
                          "Error getting stats: {e}")
        ELSE [sent |-> <<>>, result |-> FallbackHelp]
process_fallback_request(user_input, bo) ==
    LET user_input_lower == Lower(user_input)
        title == FallbackTitle(user_input)
    IN  IF IsListRequest(user_input_lower)
        THEN FallbackCall("list_tasks", NoParams, bo,
                          [fmt |-> "Here are your tasks (fallback mode):"],
                          "Error listing tasks: {e}")
        ELSE IF IsCreateRequest(user_input_lower)
        THEN IF title = <<>>
             THEN [sent |-> <<>>, result |-> AskForTitle]
             ELSE FallbackCall("create_task", CreateParams(title, "medium"), bo,
                               [fmt |-> "Task created: {title} (fallback mode)", title |-> title],
                               "Error creating task: {e}")
        ELSE IF IsStatsRequest(user_input_lower)
        THEN FallbackCall("get_task_stats", NoParams, bo,
                          [fmt |-> "Task statistics (fallback mode):"],
                          "Error getting stats: {e}")
        ELSE [sent |-> <<>>, result |-> FallbackHelp]

\* Utterances: up to MaxChunks chunks, one after the other.
ck_Create_Task == <<"C","r","e","a","t","e"," ","T","a","s","k">>
ck_colon == <<":">>
ck_space == <<" ">>
ck_buy_milk == <<"B","u","y"," ","m","i","l","k">>
Chunks ==
    {ph_create_task, ck_Create_Task, ph_add_task, kw_new, kw_task,
     ck_colon, ck_space, ck_buy_milk, kw_all, kw_stats}

RECURSIVE Concat(_)
Concat(chunks) == IF chunks = <<>> THEN <<>> ELSE Head(chunks) \o Concat(Tail(chunks))

\* the examples of the specification
utt_show_me_all_tasks == <<"s","h","o","w"," ","m","e"," ","a","l","l"," ","t","a","s","k","s">>
utt_create_buy_milk == <<"c","r","e","a","t","e"," ","t","a","s","k",":"," ","B","u","y"," ","m","i","l","k">>
utt_Create_buy_milk == <<"C","r","e","a","t","e"," ","T","a","s","k",":"," ","B","u","y"," ","m","i","l","k">>
utt_create_colon == <<"c","r","e","a","t","e"," ","t","a","s","k",":">>
utt_give_me_stats == <<"g","i","v","e"," ","m","e"," ","s","t","a","t","s">>
utt_hello_there == <<"h","e","l","l","o"," ","t","h","e","r","e">>
ExampleUtterances ==
    {utt_show_me_all_tasks, utt_create_buy_milk, utt_Create_buy_milk,
     utt_create_colon, utt_give_me_stats, utt_hello_there}

Utterances ==
    ExampleUtterances
        \cup {Concat(cs) : cs \in UNION {[1..n -> Chunks] : n \in 1..MaxChunks}}

(***************************************************************************)
(* EnhancedMCPClient: dynamic tool discovery and its cache.                *)
(***************************************************************************)
\* self._cache_ttl, in seconds
CACHE_TTL == 300
\* the ages, in seconds, below which get_tools_info reports 'fresh' and 'cached'
FRESH_AGE == 60
CACHED_AGE == 300

\* A tools_data value: None, or the JSON object of a reply to GET /tools: its
\* keys and the names of the descriptors under 'tools'.
ToolsData(keys, tools) == [none |-> FALSE, keys |-> keys, tools |-> tools]
None == [none |-> TRUE, keys |-> {}, tools |-> <<>>]

tools_small == ToolsData({"tools"}, <<"list_tasks", "create_task">>)
tools_big == ToolsData({"tools"}, <<"list_tasks", "create_task", "delete_task">>)
tools_empty_object == ToolsData({}, <<>>)
tools_no_tools_key == ToolsData({"status"}, <<>>)

\* replies that are what GET /tools is specified to return, and replies that
\* are valid JSON but not that
WellFormedTools == {tools_small, tools_big}
MalformedTools == {tools_empty_object, tools_no_tools_key}

\* Python truth value of a tools_data value
Truthy(tools_data) == ~ tools_data.none /\ tools_data.keys # {}

\* requests.get raising, raise_for_status, or response.json() on a body that
\* is not JSON (requests.exceptions.JSONDecodeError): all RequestExceptions
DiscoveryFailures == {"ConnectionError", "Timeout", "HTTPError", "JSONDecodeError"}

DiscoveryOutcomes ==
    {[kind |-> "json", data |-> d] : d \in WellFormedTools \cup MalformedTools}
        \cup {[kind |-> "fail", exc |-> e] : e \in DiscoveryFailures}

Req(method, path) == [method |-> method, path |-> path]
GetTools == Req("GET", "/tools")

\* get_dynamic_tools at time t on a client with the given cache: the value
\* returned, the cache fields afterwards and the requests sent
get_dynamic_tools_NoTtl(cache, timestamp, t, force_refresh, disc) ==
    IF ~ force_refresh /\ Truthy(cache)
    THEN [ret |-> cache, cache |-> cache, timestamp |-> timestamp, sent |-> <<>>]
    ELSE IF disc.kind = "json"
    THEN [ret |-> disc.data, cache |-> disc.data, timestamp |-> t, sent |-> <<GetTools>>]
    ELSE [ret |-> None, cache |-> cache, timestamp |-> timestamp, sent |-> <<GetTools>>]
get_dynamic_tools(cache, timestamp, t, force_refresh, disc) ==
    IF ~ force_refresh /\ Truthy(cache) /\ (t - timestamp < Seconds(CACHE_TTL))
    THEN [ret |-> cache, cache |-> cache, timestamp |-> timestamp, sent |-> <<>>]
    ELSE IF disc.kind = "json"
    THEN [ret |-> disc.data, cache |-> disc.data, timestamp |-> t, sent |-> <<GetTools>>]
    ELSE [ret |-> None, cache |-> cache, timestamp |-> timestamp, sent |-> <<GetTools>>]

\* The schema texts, by what they are made of: the static text, the text
\* rendered from discovered descriptors, and the text "No tools available".
StaticTools ==
    <<"list_tasks", "create_task", "update_task", "delete_task", "get_task_stats",
      "search_tasks", "get_tasks_by_priority", "get_tasks_by_status",
      "get_recent_tasks", "bulk_update_tasks", "archive_completed_tasks",
      "get_task_summary">>
get_static_tool_schema == [kind |-> "static", names |-> StaticTools]
NoSchema == [kind |-> "unset", names |-> <<>>]

convert_mcp_tools_to_schema(tools_data) ==
    IF ~ Truthy(tools_data) \/ "tools" \notin tools_data.keys
    THEN [kind |-> "No tools available", names |-> <<>>]
    ELSE [kind |-> "dynamic", names |-> tools_data.tools]

\* get_tool_schema with a client: the text returned and what
\* get_dynamic_tools did
get_tool_schema(use_dynamic, cache, timestamp, t, disc) ==
    IF ~ use_dynamic
    THEN [schema |-> get_static_tool_schema, cache |-> cache,
          timestamp |-> timestamp, sent |-> <<>>]
    ELSE LET r == get_dynamic_tools(cache, timestamp, t, FALSE, disc)
         IN  [schema |-> IF Truthy(r.ret)
                         THEN convert_mcp_tools_to_schema(r.ret)
                         ELSE get_static_tool_schema,
              cache |-> r.cache, timestamp |-> r.timestamp, sent |-> r.sent]

\* cache_status of line 276
CacheStatus(cache_age) ==
    IF cache_age < Seconds(FRESH_AGE) THEN "fresh"
    ELSE IF cache_age < Seconds(CACHED_AGE) THEN "cached"
    ELSE "stale"

\* get_tools_info: the dict returned and what get_dynamic_tools did
get_tools_info(cache, timestamp, t, disc) ==
    LET r == get_dynamic_tools(cache, timestamp, t, FALSE, disc)
    IN  [tools_data |-> r.ret,
         available |-> Truthy(r.ret),
         tools |-> IF Truthy(r.ret) THEN r.ret.tools ELSE <<>>,
         cache_status |-> IF Truthy(r.ret) THEN CacheStatus(t - r.timestamp) ELSE "failed",
         cache |-> r.cache, timestamp |-> r.timestamp, sent |-> r.sent]

(***************************************************************************)
(* Extraction of the JSON object from the text of the model               *)
(* (lines 537-562).                                                        *)
(***************************************************************************)
fence == <<BQ, BQ, BQ>>
fence_json == <<BQ, BQ, BQ, "j", "s", "o", "n">>

\* str.find and str.rfind of one character, as 1-based positions, 0 for -1
Find(s, c) ==
    IF \E i \in 1..Len(s) : s[i] = c
    THEN CHOOSE i \in 1..Len(s) : s[i] = c /\ \A j \in 1..(i - 1) : s[j] # c
    ELSE 0
RFind(s, c) ==
    IF \E i \in 1..Len(s) : s[i] = c
    THEN CHOOSE i \in 1..Len(s) : s[i] = c /\ \A j \in (i + 1)..Len(s) : s[j] # c
    ELSE 0

\* s.split('\n')
RECURSIVE Split(_)
Split(s) ==
    LET i == Find(s, "\n")
    IN  IF i = 0 THEN <<s>>
        ELSE <<SubSeq(s, 1, i - 1)>> \o Split(SubSeq(s, i + 1, Len(s)))

\* '\n'.join(lines)
RECURSIVE Join(_)
Join(lines) ==
    IF lines = <<>> THEN <<>>
    ELSE IF Len(lines) = 1 THEN lines[1]
    ELSE lines[1] \o <<"\n">> \o Join(Tail(lines))

\* lines 537-551: the candidate text, or the IndexError of lines[-1] on an
\* empty list
CleanAnalysisFirstBrace(analysis) ==
    LET cleaned_analysis == Strip(analysis)
        start_idx == Find(cleaned_analysis, "{")
        end_idx == Find(cleaned_analysis, "}")
        rest == Tail(Split(cleaned_analysis))
    IN  IF MatchAt(cleaned_analysis, 1, fence_json)
        THEN [raised |-> FALSE,
              text |-> IF start_idx # 0
                       THEN SubSeq(cleaned_analysis, start_idx, end_idx)
                       ELSE cleaned_analysis]
        ELSE IF MatchAt(cleaned_analysis, 1, fence)
        THEN IF rest = <<>>
             THEN [raised |-> TRUE, text |-> <<>>]
             ELSE [raised |-> FALSE,
                   text |-> IF Strip(rest[Len(rest)]) = fence
                            THEN Join(SubSeq(rest, 1, Len(rest) - 1))
                            ELSE Join(rest)]
        ELSE [raised |-> FALSE, text |-> cleaned_analysis]
CleanAnalysis(analysis) ==
    LET cleaned_analysis == Strip(analysis)
        start_idx == Find(cleaned_analysis, "{")
        end_idx == RFind(cleaned_analysis, "}")
        rest == Tail(Split(cleaned_analysis))
    IN  IF MatchAt(cleaned_analysis, 1, fence_json)
        THEN [raised |-> FALSE,
              text |-> IF start_idx # 0
                       THEN SubSeq(cleaned_analysis, start_idx, end_idx)
                       ELSE cleaned_analysis]
        ELSE IF MatchAt(cleaned_analysis, 1, fence)
        THEN IF rest = <<>>
             THEN [raised |-> TRUE, text |-> <<>>]
             ELSE [raised |-> FALSE,
                   text |-> IF Strip(rest[Len(rest)]) = fence
                            THEN Join(SubSeq(rest, 1, Len(rest) - 1))
                            ELSE Join(rest)]
        ELSE [raised |-> FALSE, text |-> cleaned_analysis]

(***************************************************************************)
(* JSON texts, character by character: the values, how a model may write   *)
(* them, and json.loads (line 559).                                        *)
(***************************************************************************)
\* JSON values: strings, the literals, whole numbers, arrays, and objects as
\* the sequence of their members
Str(chars) == [t |-> "str", s |-> chars]
Lit(name) == [t |-> "lit", name |-> name]
Num(digits) == [t |-> "num", digits |-> digits]
Arr(items) == [t |-> "arr", items |-> items]
Obj(members) == [t |-> "obj", members |-> members]
Member(k, v) == [k |-> k, v |-> v]

lit_null == <<"n","u","l","l">>
lit_true == <<"t","r","u","e">>
lit_false == <<"f","a","l","s","e">>
Literals == {lit_null, lit_true, lit_false}
Digits == {"0","1","2","3","4","5","6","7","8","9"}
QUOTE == "\""
BACKSLASH == "\\"

\* the ways of writing a value: json.dumps with separators (',', ':'), with
\* its defaults, and with indent=2
Styles == {"compact", "default", "indent"}
Newline(style, depth) ==
    IF style = "indent" THEN <<"\n">> \o [i \in 1..(2 * depth) |-> " "] ELSE <<>>
ItemSeparator(style) == IF style = "default" THEN <<",", " ">> ELSE <<",">>
KeySeparator(style) == IF style = "compact" THEN <<":">> ELSE <<":", " ">>

RECURSIVE Escape(_)
Escape(chars) ==
    IF chars = <<>> THEN <<>>
    ELSE (CASE Head(chars) = QUOTE -> <<BACKSLASH, QUOTE>>
            [] Head(chars) = BACKSLASH -> <<BACKSLASH, BACKSLASH>>
            [] Head(chars) = "\n" -> <<BACKSLASH, "n">>
            [] Head(chars) = "\t" -> <<BACKSLASH, "t">>
            [] OTHER -> <<Head(chars)>>) \o Escape(Tail(chars))
Quoted(chars) == <<QUOTE>> \o Escape(chars) \o <<QUOTE>>

RECURSIVE json_dumps(_, _, _)
RECURSIVE DumpItems(_, _, _)
RECURSIVE DumpMembers(_, _, _)
json_dumps(v, style, depth) ==
    CASE v.t = "str" -> Quoted(v.s)
      [] v.t = "lit" -> v.name
      [] v.t = "num" -> v.digits
      [] v.t = "arr" ->
            IF v.items = <<>> THEN <<"[", "]">>
            ELSE <<"[">> \o DumpItems(v.items, style, depth + 1)
                     \o Newline(style, depth) \o <<"]">>
      [] v.t = "obj" ->
            IF v.members = <<>> THEN <<"{", "}">>
            ELSE <<"{">> \o DumpMembers(v.members, style, depth + 1)
                     \o Newline(style, depth) \o <<"}">>
DumpItems(items, style, depth) ==
    Newline(style, depth) \o json_dumps(Head(items), style, depth)
        \o IF Tail(items) = <<>> THEN <<>>
           ELSE ItemSeparator(style) \o DumpItems(Tail(items), style, depth)
DumpMembers(members, style, depth) ==
    Newline(style, depth) \o Quoted(Head(members).k) \o KeySeparator(style)
        \o json_dumps(Head(members).v, style, depth)
        \o IF Tail(members) = <<>> THEN <<>>
           ELSE ItemSeparator(style) \o DumpMembers(Tail(members), style, depth)

\* a fenced code block with a language tag, or with none
Fenced(tag, text) == fence \o tag \o <<"\n">> \o text \o <<"\n">> \o fence

\* json.loads, as a recursive-descent reader.  A reading is the value read
\* and the position after it, or a failure.
IsJsonSpace(c) == c \in {" ", "\n", "\t", "\r"}
RECURSIVE SkipSpace(_, _)
SkipSpace(s, i) == IF i <= Len(s) /\ IsJsonSpace(s[i]) THEN SkipSpace(s, i + 1) ELSE i
Failed == [ok |-> FALSE, v |-> Lit(<<>>), i |-> 0]
Read(v, i) == [ok |-> TRUE, v |-> v, i |-> i]

\* d[k] = v on a Python dict: a key met again keeps its place and takes the
\* new value
DictSet(members, k, v) ==
    IF \E n \in 1..Len(members) : members[n].k = k
    THEN [n \in 1..Len(members) |->
            IF members[n].k = k THEN Member(k, v) ELSE members[n]]
    ELSE Append(members, Member(k, v))

\* the characters of a string from position i up to the closing quote; the
\* escapes read are those of Escape and \/, \r
RECURSIVE ScanString(_, _, _)
ScanString(s, i, acc) ==
    IF i > Len(s) THEN Failed
    ELSE IF s[i] = QUOTE THEN Read(Str(acc), i + 1)
    ELSE IF s[i] = BACKSLASH
    THEN IF i + 1 > Len(s) THEN Failed
         ELSE CASE s[i + 1] = QUOTE -> ScanString(s, i + 2, Append(acc, QUOTE))
                [] s[i + 1] = BACKSLASH -> ScanString(s, i + 2, Append(acc, BACKSLASH))
                [] s[i + 1] = "/" -> ScanString(s, i + 2, Append(acc, "/"))
                [] s[i + 1] = "n" -> ScanString(s, i + 2, Append(acc, "\n"))
                [] s[i + 1] = "t" -> ScanString(s, i + 2, Append(acc, "\t"))
                [] s[i + 1] = "r" -> ScanString(s, i + 2, Append(acc, "\r"))
                [] OTHER -> Failed
    ELSE IF s[i] \in {"\n", "\t", "\r"}
    THEN Failed  \* a control character inside a string
    ELSE ScanString(s, i + 1, Append(acc, s[i]))

RECURSIVE ScanDigits(_, _)
ScanDigits(s, i) == IF i <= Len(s) /\ s[i] \in Digits THEN ScanDigits(s, i + 1) ELSE i

RECURSIVE ReadValue(_, _)
RECURSIVE ReadMembers(_, _, _)
RECURSIVE ReadItems(_, _, _)
ReadValue(s, i0) ==
    LET i == SkipSpace(s, i0)
        j == SkipSpace(s, i + 1)
        e == ScanDigits(s, i)
    IN  IF i > Len(s) THEN Failed
        ELSE IF s[i] = QUOTE THEN ScanString(s, i + 1, <<>>)
        ELSE IF s[i] = "{"
        THEN IF j <= Len(s) /\ s[j] = "}" THEN Read(Obj(<<>>), j + 1)
             ELSE ReadMembers(s, j, <<>>)
        ELSE IF s[i] = "["
        THEN IF j <= Len(s) /\ s[j] = "]" THEN Read(Arr(<<>>), j + 1)
             ELSE ReadItems(s, j, <<>>)
        ELSE IF \E w \in Literals : MatchAt(s, i, w)
        THEN LET w == CHOOSE w \in Literals : MatchAt(s, i, w)
             IN  Read(Lit(w), i + Len(w))
        ELSE IF s[i] \in Digits
        THEN IF s[i] = "0" THEN Read(Num(<<"0">>), i + 1)
             ELSE Read(Num(SubSeq(s, i, e - 1)), e)
        ELSE Failed
\* the members of an object from position i, where a key must start
ReadMembers(s, i, acc) ==
    IF i > Len(s) \/ s[i] # QUOTE THEN Failed
    ELSE LET k == ScanString(s, i + 1, <<>>)
             c == SkipSpace(s, k.i)
             v == ReadValue(s, c + 1)
             e == SkipSpace(s, v.i)
         IN  IF ~ k.ok THEN Failed
             ELSE IF c > Len(s) \/ s[c] # ":" THEN Failed
             ELSE IF ~ v.ok THEN Failed
             ELSE IF e > Len(s) THEN Failed
             ELSE IF s[e] = "}" THEN Read(Obj(DictSet(acc, k.v.s, v.v)), e + 1)
             ELSE IF s[e] = ","
             THEN ReadMembers(s, SkipSpace(s, e + 1), DictSet(acc, k.v.s, v.v))
             ELSE Failed
\* the items of an array from position i, where a value must start
ReadItems(s, i, acc) ==
    LET v == ReadValue(s, i)
        e == SkipSpace(s, v.i)
    IN  IF ~ v.ok THEN Failed
        ELSE IF e > Len(s) THEN Failed
        ELSE IF s[e] = "]" THEN Read(Arr(Append(acc, v.v)), e + 1)
        ELSE IF s[e] = "," THEN ReadItems(s, e + 1, Append(acc, v.v))
        ELSE Failed

\* json.loads(text): the value, or JSONDecodeError (nothing readable, or
\* extra data after the value)
json_loads(text) ==
    LET r == ReadValue(text, 1)
    IN  IF r.ok /\ SkipSpace(text, r.i) > Len(text)
        THEN [raised |-> FALSE, value |-> r.v]
        ELSE [raised |-> TRUE, value |-> Lit(<<>>)]

\* The JSON objects the model writes, by the letter that abbreviates their
\* content: the keys present and the values of the keys the router reads.
Parsed(keys, action, tool, parameters, response) ==
    [keys |-> keys, action |-> action, tool |-> tool, parameters |-> parameters,
     response |-> response]
IdParams == [keys |-> {"id"}, title |-> <<>>, priority |-> ""]
ck_buy_milk_title == <<"B","u","y"," ","m","i","l","k">>
Payload(letter) ==
    CASE letter = "c" ->
            Parsed({"action", "response"}, "chat", "", NoParams, [fmt |-> "Hello!"])
      [] letter = "l" ->
            Parsed({"action", "tool", "parameters"}, "tool_call", "list_tasks",
                   NoParams, [fmt |-> ""])
      [] letter = "d" ->
            Parsed({"action", "tool", "parameters"}, "tool_call", "delete_task",
                   IdParams, [fmt |-> ""])
      [] letter = "t" ->
            Parsed({"action", "tool", "parameters"}, "tool_call", "create_task",
                   CreateParams(ck_buy_milk_title, "high"), [fmt |-> ""])
      [] letter = "u" ->  \* a create_task with no title
            Parsed({"action", "tool", "parameters"}, "tool_call", "create_task",
                   [keys |-> {"priority"}, title |-> <<>>, priority |-> "high"],
                   [fmt |-> ""])
      [] letter = "n" ->  \* a tool_call with no 'tool'
            Parsed({"action", "parameters"}, "tool_call", "", NoParams, [fmt |-> ""])
      [] letter = "e" ->  \* a tool_call whose 'tool' is the empty string
            Parsed({"action", "tool", "parameters"}, "tool_call", "", NoParams,
                   [fmt |-> ""])
PayloadLetters == {"c", "l", "d", "t", "u", "n", "e"}
\* the object {}
EmptyObject == Parsed({}, "", "", NoParams, [fmt |-> ""])

\* json.loads on the text of the model: an abbreviated object, or what
\* json_loads reads: JSONDecodeError, or a value that is not an object: an
\* array, a string, a number or a literal
JsonLoads(text) ==
    LET t == Strip(text)
        r == json_loads(text)
    IN  IF Len(t) = 3 /\ t[1] = "{" /\ t[3] = "}" /\ t[2] \in PayloadLetters
        THEN [kind |-> "object", object |-> Payload(t[2])]
        ELSE IF r.raised
        THEN [kind |-> "JSONDecodeError"]
        ELSE IF r.value = Obj(<<>>)
        THEN [kind |-> "object", object |-> EmptyObject]
        ELSE [kind |-> r.value.t]

(***************************************************************************)
(* process_gemini_request_enhanced after the model call (lines 536-608).   *)
(***************************************************************************)
\* with_retry(max_retries=3) of line 55
GEMINI_MAX_RETRIES == 3

Mode(use_dynamic_tools) == IF use_dynamic_tools THEN "Dynamic" ELSE "Static"

\* the requests of a handler, each with the part of the handler that sent it
Tag(sent, part) == [i \in 1..Len(sent) |-> [req |-> sent[i], at |-> part]]

\* lines 582-590
ResponseText(tool_result) ==
    IF "error" \in tool_result.keys
    THEN [fmt |-> "Error: {error}", error |-> tool_result.error]
    ELSE IF "message" \in tool_result.keys /\ tool_result.message # ""
    THEN [fmt |-> "{message}", message |-> tool_result.message,
          details |-> "task" \in tool_result.keys]
    ELSE [fmt |-> "Operation completed successfully!"]

\* lines 579-601
ExecuteToolRetrying(tool_name, parameters, use_dynamic_tools, bo) ==
    LET r == call_tool(tool_name, parameters, bo)
    IN  [sent |-> IF r.raised THEN r.sent \o r.sent ELSE r.sent,
         result |-> IF r.raised
                    THEN ActionResponse("error",
                            [fmt |-> "Failed to execute tool: {e}", cause |-> r.exc])
                    ELSE Result({"action", "response", "tool_result", "mode"},
                                "tool_result", ResponseText(r.reply), r.reply,
                                Mode(use_dynamic_tools))]
ExecuteTool(tool_name, parameters, use_dynamic_tools, bo) ==
    LET r == call_tool(tool_name, parameters, bo)
    IN  [sent |-> r.sent,
         result |-> IF r.raised
                    THEN ActionResponse("error",
                            [fmt |-> "Failed to execute tool: {e}", cause |-> r.exc])
                    ELSE Result({"action", "response", "tool_result", "mode"},
                                "tool_result", ResponseText(r.reply), r.reply,
                                Mode(use_dynamic_tools))]

\* the outer except of lines 606-608
ErrorProcessing(cause) ==
    ActionResponse("error", [fmt |-> "Error processing request: {e}", cause |-> cause])

\* `return parsed`
PassThrough(parsed) ==
    Result(parsed.keys, IF "action" \in parsed.keys THEN parsed.action ELSE "",
           parsed.response, NoReply, "")

\* lines 564-604 for a parsed JSON object
HandleParsed(parsed, use_dynamic_tools, cache, timestamp, t, disc, bo) ==
    LET tool_name == IF "tool" \in parsed.keys THEN parsed.tool ELSE "None"
        tools_info == get_tools_info(cache, timestamp, t, disc)
        available_tools == {tools_info.tools[i] : i \in 1..Len(tools_info.tools)}
        call == ExecuteTool(tool_name, parsed.parameters, use_dynamic_tools, bo)
    IN  IF "action" \in parsed.keys /\ parsed.action = "tool_call"
        THEN IF use_dynamic_tools
             THEN IF tool_name \notin available_tools
                  THEN [result |-> ActionResponse("error",
                                      [fmt |-> "Tool '{tool_name}' not available", tool |-> tool_name]),
                        cache |-> tools_info.cache, timestamp |-> tools_info.timestamp,
                        net |-> Tag(tools_info.sent, "validation")]
                  ELSE [result |-> call.result,
                        cache |-> tools_info.cache, timestamp |-> tools_info.timestamp,
                        net |-> Tag(tools_info.sent, "validation") \o Tag(call.sent, "dispatch")]
             ELSE [result |-> call.result, cache |-> cache, timestamp |-> timestamp,
                   net |-> Tag(call.sent, "dispatch")]
        ELSE [result |-> PassThrough(parsed), cache |-> cache, timestamp |-> timestamp,
              net |-> <<>>]

\* lines 536-608 for the value `analysis` that call_gemini_with_retry returned
\* or the exception it raised
AfterModelNoOuterExcept(analysis, use_dynamic_tools, cache, timestamp, t, disc, bo) ==
    LET only(res) == [result |-> res, cache |-> cache, timestamp |-> timestamp, net |-> <<>>]
        cleaned == CleanAnalysis(analysis.text)
        loaded == JsonLoads(cleaned.text)
    IN  IF analysis.kind = "exc"
        THEN only(ErrorProcessing([fmt |-> "{e}", msg |-> analysis.msg]))
        ELSE IF analysis.kind # "text"
        THEN \* analysis.strip() on a dict or on None
             only(ErrorProcessing([fmt |-> "object has no attribute 'strip'"]))
        ELSE IF cleaned.raised
        THEN only(ErrorProcessing([fmt |-> "list index out of range"]))
        ELSE IF loaded.kind = "JSONDecodeError"
        THEN only(ActionResponse("error", [fmt |-> "Failed to parse AI response"]))
        ELSE IF loaded.kind # "object"
        THEN only(Raises([fmt |-> "object has no attribute 'get'"]))
        ELSE HandleParsed(loaded.object, use_dynamic_tools, cache, timestamp, t, disc, bo)
AfterModel(analysis, use_dynamic_tools, cache, timestamp, t, disc, bo) ==
    LET only(res) == [result |-> res, cache |-> cache, timestamp |-> timestamp, net |-> <<>>]
        cleaned == CleanAnalysis(analysis.text)
        loaded == JsonLoads(cleaned.text)
    IN  IF analysis.kind = "exc"
        THEN only(ErrorProcessing([fmt |-> "{e}", msg |-> analysis.msg]))
        ELSE IF analysis.kind # "text"
        THEN \* analysis.strip() on a dict or on None
             only(ErrorProcessing([fmt |-> "object has no attribute 'strip'"]))
        ELSE IF cleaned.raised
        THEN only(ErrorProcessing([fmt |-> "list index out of range"]))
        ELSE IF loaded.kind = "JSONDecodeError"
        THEN only(ActionResponse("error", [fmt |-> "Failed to parse AI response"]))
        ELSE IF loaded.kind # "object"
        THEN \* parsed.get on a list, a str, an int or None
             only(ErrorProcessing([fmt |-> "object has no attribute 'get'"]))
        ELSE HandleParsed(loaded.object, use_dynamic_tools, cache, timestamp, t, disc, bo)

(***************************************************************************)
(* The state machine.                                                      *)
(***************************************************************************)
\* largest number of utterances routed and of idle periods between them
MaxRoutes == 1
MaxTicks == 2
VARIABLES
    now,             \* time.time(), in ticks
    max_retries,     \* with_retry argument
    backoff_factor,  \* with_retry argument, a fraction
    attempt,         \* loop variable of wrapper
    w_pc,            \* "idle", "running", "returned" or "raised"
    w_result,        \* what wrapper returned or raised
    calls,           \* number of invocations of func by the current wrapper call
    sleeps,          \* durations of the time.sleep calls of the current wrapper call
    outcomes,        \* outcomes of the invocations of func, in order
    tools_cache,         \* EnhancedMCPClient._tools_cache
    cache_timestamp,     \* EnhancedMCPClient._cache_timestamp, in ticks
    use_fallback_mode,   \* st.session_state['use_fallback_mode']
    use_dynamic_tools,   \* st.session_state['use_dynamic_tools']
    messages,            \* st.session_state.messages, the chat history
    pc,                  \* where the handler of the current utterance is
    user_input,          \* the utterance being handled
    tool_schema,         \* the schema text rendered into the prompt
    result,              \* what the handler returned
    net,                 \* the backend requests sent for the current utterance
    routes,              \* utterances handled so far
    ticks,               \* idle periods so far
    cache_resource,      \* what st.cache_resource holds for init_clients: 0, or
                         \* the EnhancedMCPClient it constructed
    session_client,      \* the enhanced_mcp_client each session was handed
    actor,               \* the session whose script made the last client call
    discovery,           \* the last call of get_dynamic_tools, as observed
    last_tools_info,     \* the dict the last call of get_tools_info returned
    model_object,        \* the JSON object the model wrote, and how it wrote it
    parsed_value         \* what lines 537-562 made of the text of the model

retryVars ==
    <<max_retries, backoff_factor, attempt, w_pc, w_result, calls, sleeps, outcomes>>

clientVars == <<tools_cache, cache_timestamp>>
sessionVars == <<use_fallback_mode, use_dynamic_tools, messages>>
handlerVars == <<pc, user_input, tool_schema, result, net, routes, ticks>>
processVars == <<cache_resource, session_client, actor, discovery, last_tools_info>>
extractVars == <<model_object, parsed_value>>
vars == <<now, retryVars, clientVars, sessionVars, handlerVars, processVars, extractVars>>

\* the entries of the chat history: the greeting of lines 743-749, the
\* prompt of line 759, the response with its mode badge of lines 778-825
Greeting(mode) ==
    [role |-> "assistant",
     content |-> [response |-> [fmt |-> "Hello! I'm your Task Management Assistant running in **{mode} Tool Discovery** mode."],
                  mode |-> mode]]
UserMessage(prompt) == [role |-> "user", content |-> prompt]
AssistantMessage(res, mode) ==
    [role |-> "assistant",
     content |-> [response |-> IF "response" \in res.keys
                               THEN res.response
                               ELSE [fmt |-> "I'm not sure how to help with that."],
                  mode |-> IF "mode" \in res.keys THEN res.mode ELSE mode]]

\* return values of wrapper
RetText(t) == [kind |-> "text", text |-> t]
RetDict(d) == [kind |-> "dict", dict |-> d]
RetNone == [kind |-> "none"]
Raised(m) == [kind |-> "exc", msg |-> m]

\* the state in which wrapper(*args) has just been entered
WrapperEntered(mr, bf) ==
    /\ max_retries' = mr
    /\ backoff_factor' = bf
    /\ attempt' = 0
    /\ w_pc' = "running"
    /\ w_result' = RetNone
    /\ calls' = 0
    /\ sleeps' = <<>>
    /\ outcomes' = <<>>

\* One iteration of `for attempt in range(max_retries)` in wrapper, with the
\* outcome `out` of func and the jitter drawn by random.uniform; the loop
\* falling through returns None (line 51).
iteration(out, jitter) ==
    /\ UNCHANGED <<max_retries, backoff_factor, clientVars, sessionVars, handlerVars,
                   processVars, extractVars>>
    /\ IF attempt < max_retries
       THEN /\ calls' = calls + 1
            /\ outcomes' = Append(outcomes, out)
            /\ IF out.kind = "ok"
               THEN \* return func(*args, **kwargs); the func of line 56 strips
                    /\ w_pc' = "returned"
                    /\ w_result' = RetText(Strip(out.text))
                    /\ UNCHANGED <<attempt, sleeps, now>>
               ELSE IF IsRateLimit(out.msg)
                    THEN IF AttemptsRemain(attempt, max_retries)
                         THEN \* time.sleep(backoff_time); continue
                              /\ sleeps' = Append(sleeps, BackoffTime(backoff_factor, attempt, jitter))
                              /\ now' = now + BackoffTime(backoff_factor, attempt, jitter)
                              /\ attempt' = attempt + 1
                              /\ UNCHANGED <<w_pc, w_result>>
                         ELSE /\ w_pc' = "returned"
                              /\ w_result' = RetDict(RateLimited)
                              /\ UNCHANGED <<attempt, sleeps, now>>
                    ELSE \* raise e
                         /\ w_pc' = "raised"
                         /\ w_result' = Raised(out.msg)
                         /\ UNCHANGED <<attempt, sleeps, now>>
       ELSE /\ w_pc' = "returned"
            /\ w_result' = RetNone
            /\ UNCHANGED <<attempt, calls, sleeps, outcomes, now>>

\* wrapper, running: its next iteration, for a func with the given outcomes
wrapper(func_outcomes, jitters) ==
    /\ w_pc = "running"
    /\ \E out \in func_outcomes, jitter \in jitters : iteration(out, jitter)

(***************************************************************************)
(* The handlers of one session.                                            *)
(***************************************************************************)
\* how long the session may sit idle between two interactions, in ticks
IdlePeriods == {Seconds(59), Seconds(240)}

\* the utterances routed
RoutedUtterances == {utt_create_buy_milk, utt_hello_there}

\* what one call of the language model does, and the jitter of a backoff
ModelOutcomes ==
    {[kind |-> "ok", text |-> t] : t \in ModelTexts}
        \cup {[kind |-> "err", msg |-> m] : m \in {msg_429, msg_timeout}}
ModelJitters == {TimeScale \div 2}

\* what the backend does with the tool call of a routed utterance
RoutedBackendOutcomes ==
    {[kind |-> "reply", reply |-> Reply({"message", "task"}, "", "Task created")],
     [kind |-> "reply", reply |-> Reply({"error", "message"}, "Invalid priority", "Validation failed")],
     [kind |-> "fail", exc |-> "ConnectionError"],
     [kind |-> "fail", exc |-> "Timeout"]}

\* line 486 with the flag set: the whole of process_fallback_request, for
\* the caller's utterance number max_routes at most
FallbackPath(max_routes) ==
    /\ pc = "idle"
    /\ routes < max_routes
    /\ use_fallback_mode
    /\ \E u \in RoutedUtterances, bo \in RoutedBackendOutcomes :
        LET r == process_fallback_request(u, bo)
        IN  /\ result' = r.result
            /\ net' = Tag(r.sent, "fallback")
            /\ user_input' = u
    /\ pc' = "done"
    /\ routes' = routes + 1
    /\ UNCHANGED <<now, retryVars, clientVars, use_fallback_mode, use_dynamic_tools,
                   tool_schema, ticks, processVars, extractVars>>

\* lines 486-534: the schema is fetched and rendered into the prompt, and
\* call_gemini_with_retry is entered
ModelPath(max_routes) ==
    /\ pc = "idle"
    /\ routes < max_routes
    /\ ~ use_fallback_mode
    /\ \E u \in RoutedUtterances, disc \in DiscoveryOutcomes :
        LET r == get_tool_schema(use_dynamic_tools, tools_cache, cache_timestamp, now, disc)
        IN  /\ tool_schema' = r.schema
            /\ tools_cache' = r.cache
            /\ cache_timestamp' = r.timestamp
            /\ net' = Tag(r.sent, "get_tool_schema")
            /\ user_input' = u
    /\ WrapperEntered(GEMINI_MAX_RETRIES, DefaultBackoff)
    /\ pc' = "model"
    /\ result' = NoResult
    /\ routes' = routes + 1
    /\ UNCHANGED <<now, use_fallback_mode, use_dynamic_tools, ticks, processVars,
                   extractVars>>

\* process_gemini_request_enhanced called with the flag set; the function
\* does not touch the chat history
RouteFallbackAfterSchema ==
    /\ pc = "idle"
    /\ routes < MaxRoutes
    /\ use_fallback_mode
    /\ \E u \in RoutedUtterances, bo \in RoutedBackendOutcomes, disc \in DiscoveryOutcomes :
        LET s == get_tool_schema(use_dynamic_tools, tools_cache, cache_timestamp, now, disc)
            r == process_fallback_request(u, bo)
        IN  /\ tool_schema' = s.schema
            /\ tools_cache' = s.cache
            /\ cache_timestamp' = s.timestamp
            /\ result' = r.result
            /\ net' = Tag(s.sent, "get_tool_schema") \o Tag(r.sent, "fallback")
            /\ user_input' = u
    /\ pc' = "done"
    /\ routes' = routes + 1
    /\ UNCHANGED <<now, retryVars, sessionVars, ticks, processVars, extractVars>>
RouteFallback ==
    /\ FallbackPath(MaxRoutes)
    /\ UNCHANGED messages

\* process_gemini_request_enhanced called with the flag unset
RouteModel ==
    /\ ModelPath(MaxRoutes)
    /\ UNCHANGED messages

\* lines 536-608, once call_gemini_with_retry has returned or raised
RouteFinishEnablingFallback(backend_outcomes) ==
    /\ pc = "model"
    /\ w_pc \in {"returned", "raised"}
    /\ \E disc \in DiscoveryOutcomes, bo \in backend_outcomes :
        LET r == AfterModel(w_result, use_dynamic_tools, tools_cache, cache_timestamp,
                            now, disc, bo)
        IN  /\ result' = r.result
            /\ tools_cache' = r.cache
            /\ cache_timestamp' = r.timestamp
            /\ net' = net \o r.net
    /\ pc' = "done"
    /\ use_fallback_mode' = (use_fallback_mode \/ w_result = RetDict(RateLimited))
    /\ UNCHANGED <<now, retryVars, use_dynamic_tools, messages, user_input, tool_schema,
                   routes, ticks, processVars, extractVars>>
RouteFinish(backend_outcomes) ==
    /\ pc = "model"
    /\ w_pc \in {"returned", "raised"}
    /\ \E disc \in DiscoveryOutcomes, bo \in backend_outcomes :
        LET r == AfterModel(w_result, use_dynamic_tools, tools_cache, cache_timestamp,
                            now, disc, bo)
        IN  /\ result' = r.result
            /\ tools_cache' = r.cache
            /\ cache_timestamp' = r.timestamp
            /\ net' = net \o r.net
    /\ pc' = "done"
    /\ UNCHANGED <<now, retryVars, sessionVars, user_input, tool_schema, routes, ticks,
                   processVars, extractVars>>

\* the value returned by process_gemini_request_enhanced has been consumed:
\* its locals and those of the wrapper are gone
Returned ==
    /\ pc = "done"
    /\ pc' = "idle"
    /\ user_input' = <<>>
    /\ tool_schema' = NoSchema
    /\ result' = NoResult
    /\ net' = <<>>
    /\ max_retries' = 0
    /\ backoff_factor' = DefaultBackoff
    /\ attempt' = 0
    /\ w_pc' = "idle"
    /\ w_result' = RetNone
    /\ calls' = 0
    /\ sleeps' = <<>>
    /\ outcomes' = <<>>
    /\ UNCHANGED <<now, clientVars, use_fallback_mode, use_dynamic_tools, routes, ticks,
                   processVars, extractVars>>

\* the call of lines 771-776 has returned; the next call may come
RouteReturn ==
    /\ Returned
    /\ UNCHANGED messages

\* lines 293-298: the "Dynamic Tool Discovery" checkbox
SetDynamicTools ==
    /\ pc = "idle"
    /\ use_dynamic_tools' = ~ use_dynamic_tools
    /\ UNCHANGED <<now, retryVars, clientVars, use_fallback_mode, messages, handlerVars,
                   processVars, extractVars>>

\* lines 306-310: in dynamic mode the settings panel shows get_tools_info()
ShowSettings ==
    /\ pc = "idle"
    /\ use_dynamic_tools
    /\ \E disc \in DiscoveryOutcomes :
        LET tools_info == get_tools_info(tools_cache, cache_timestamp, now, disc)
        IN  /\ tools_cache' = tools_info.cache
            /\ cache_timestamp' = tools_info.timestamp
    /\ UNCHANGED <<now, retryVars, sessionVars, handlerVars, processVars, extractVars>>

\* time passing while the session is idle
Tick ==
    /\ pc = "idle"
    /\ ticks < MaxTicks
    /\ \E d \in IdlePeriods : now' = now + d
    /\ ticks' = ticks + 1
    /\ UNCHANGED <<retryVars, clientVars, sessionVars, pc, user_input, tool_schema,
                   result, net, routes, processVars, extractVars>>

\* nothing written by the model yet, nothing extracted yet
NoObject == [object |-> Obj(<<>>), style |-> "", wrap |-> "", pad |-> <<>>]
NotParsed == [kind |-> "none"]

\* The sessions of the process: every browser session runs main, and main
\* calls init_clients.
MaxSessions == 2
Sessions == 1..MaxSessions

\* what has been observed of get_dynamic_tools and of get_tools_info: nothing
\* yet, or the arguments and the client fields at the call, what the fetch
\* got, the value returned and the requests sent
NoDiscovery ==
    [called |-> FALSE, by |-> "", force_refresh |-> FALSE, cached |-> None,
     timestamp |-> 0, at |-> 0, outcome |-> "none", ret |-> None, sent |-> <<>>]
Discovery(by, force_refresh, cache, timestamp, t, disc, r) ==
    [called |-> TRUE, by |-> by, force_refresh |-> force_refresh, cached |-> cache,
     timestamp |-> timestamp, at |-> t,
     outcome |-> IF r.sent = <<>> THEN "none" ELSE disc.kind,
     ret |-> r.ret, sent |-> r.sent]
NoInfo == [returned |-> FALSE, available |-> FALSE, tools |-> <<>>, cache_status |-> ""]
Info(r) ==
    [returned |-> TRUE, available |-> r.available, tools |-> r.tools,
     cache_status |-> r.cache_status]

\* The first session has run init_clients (lines 610-621): the client is
\* constructed and kept by st.cache_resource.
InitProcess ==
    /\ cache_resource = 1
    /\ session_client = [s \in Sessions |-> IF s = 1 THEN 1 ELSE 0]
    /\ actor = 0
    /\ discovery = NoDiscovery
    /\ last_tools_info = NoInfo

\* The state after construction: an empty cache (lines 123-124), the checkbox
\* unticked.  use_fallback_mode is read at line 486 and written nowhere: both
\* values are taken as given by the session.
InitIdle ==
    /\ tools_cache = None
    /\ cache_timestamp = 0
    /\ use_dynamic_tools = FALSE
    /\ messages = <<Greeting(Mode(FALSE))>>
    /\ pc = "idle"
    /\ user_input = <<>>
    /\ tool_schema = NoSchema
    /\ result = NoResult
    /\ net = <<>>
    /\ routes = 0
    /\ ticks = 0
    /\ model_object = NoObject
    /\ parsed_value = NotParsed

Init ==
    /\ InitIdle
    /\ InitProcess
    /\ now = StartTime
    /\ use_fallback_mode \in BOOLEAN
    /\ max_retries = 0
    /\ backoff_factor = DefaultBackoff
    /\ attempt = 0
    /\ w_pc = "idle"
    /\ w_result = RetNone
    /\ calls = 0
    /\ sleeps = <<>>
    /\ outcomes = <<>>

Next ==
    \/ RouteFallback
    \/ RouteModel
    \/ wrapper(ModelOutcomes, ModelJitters)
    \/ RouteFinish(RoutedBackendOutcomes)
    \/ RouteReturn
    \/ SetDynamicTools
    \/ ShowSettings
    \/ Tick

Spec == Init /\ [][Next]_vars

(***************************************************************************)
(* A wrapped operation called on its own: any max_retries, either backoff  *)
(* factor, any sequence of outcomes of the operation.                      *)
(***************************************************************************)

InitRetry ==
    /\ InitIdle
    /\ InitProcess
    /\ use_fallback_mode = FALSE
    /\ now = StartTime
    /\ max_retries \in 0..MaxRetries
    /\ backoff_factor \in BackoffFactors
    /\ attempt = 0
    /\ w_pc = "running"
    /\ w_result = RetNone
    /\ calls = 0
    /\ sleeps = <<>>
    /\ outcomes = <<>>

NextRetry == wrapper(FuncOutcomes, Jitters)

SpecRetry == InitRetry /\ [][NextRetry]_vars

(***************************************************************************)
(* process_fallback_request called on its own: any utterance, any outcome  *)
(* of the backend call.                                                    *)
(***************************************************************************)
CallFallback ==
    /\ pc = "idle"
    /\ \E u \in Utterances, bo \in BackendOutcomes :
        LET r == process_fallback_request(u, bo)
        IN  /\ result' = r.result
            /\ net' = Tag(r.sent, "fallback")
            /\ user_input' = u
    /\ pc' = "done"
    /\ UNCHANGED <<now, retryVars, clientVars, sessionVars, tool_schema, routes, ticks,
                   processVars, extractVars>>

NextFallback ==
    \/ CallFallback
    \/ RouteReturn

SpecFallback == Init /\ [][NextFallback]_vars

(***************************************************************************)
(* The chat loop of main (lines 757-825): every utterance typed into the   *)
(* chat input is added to the history, handed to                           *)
(* process_gemini_request_enhanced, and answered in the history.           *)
(***************************************************************************)
\* largest number of utterances typed in one session
MaxChats == 2

\* what one call of the language model does in these sessions: it answers
\* with a chat object or a tool call, or it is rate-limited
SessionModelOutcomes ==
    {[kind |-> "ok", text |-> txt_chat],
     [kind |-> "ok", text |-> txt_create],
     [kind |-> "err", msg |-> msg_429]}

\* lines 757-776: the prompt is appended to the history and
\* process_gemini_request_enhanced is called
ChatInput ==
    /\ \/ FallbackPath(MaxChats)
       \/ ModelPath(MaxChats)
    /\ messages' = Append(messages, UserMessage(user_input'))

\* lines 778-825: the response is shown with its mode badge and appended to
\* the history
ChatReply ==
    /\ Returned
    /\ messages' = Append(messages, AssistantMessage(result, Mode(use_dynamic_tools)))

NextSession ==
    \/ ChatInput
    \/ wrapper(SessionModelOutcomes, ModelJitters)
    \/ RouteFinish(RoutedBackendOutcomes)
    \/ ChatReply

SpecSession == Init /\ [][NextSession]_vars

(***************************************************************************)
(* Lines 536-608 on their own: the model has returned any of the texts, in *)
(* static or dynamic mode, with or without a schema in the cache, and the  *)
(* backend does anything with the tool call.                               *)
(***************************************************************************)
\* the prompt was built at line 490 and call_gemini_with_retry has returned
InitAfterModel ==
    /\ InitProcess
    /\ now = StartTime
    /\ use_fallback_mode = FALSE
    /\ use_dynamic_tools \in BOOLEAN
    /\ messages = <<Greeting(Mode(FALSE)), UserMessage(utt_hello_there)>>
    /\ tools_cache \in {None} \cup WellFormedTools
    /\ cache_timestamp = IF tools_cache = None THEN 0 ELSE StartTime
    /\ tool_schema = IF use_dynamic_tools /\ Truthy(tools_cache)
                     THEN convert_mcp_tools_to_schema(tools_cache)
                     ELSE get_static_tool_schema
    /\ pc = "model"
    /\ user_input = utt_hello_there
    /\ result = NoResult
    /\ net = <<>>
    /\ routes = 1
    /\ ticks = 0
    /\ model_object = NoObject
    /\ parsed_value = NotParsed
    /\ max_retries = GEMINI_MAX_RETRIES
    /\ backoff_factor = DefaultBackoff
    /\ attempt = 0
    /\ w_pc = "returned"
    /\ w_result \in {RetText(Strip(t)) : t \in ModelTexts \cup MoreModelTexts}
    /\ calls = 1
    /\ sleeps = <<>>
    /\ outcomes = <<[kind |-> "ok", text |-> w_result.text]>>

NextAfterModel == RouteFinish(BackendOutcomes)

SpecAfterModel == InitAfterModel /\ [][NextAfterModel]_vars

(***************************************************************************)
(* The EnhancedMCPClient called on its own by the sessions of one process: *)
(* discovery with and without force_refresh, get_tools_info, and time      *)
(* passing between the calls.                                              *)
(***************************************************************************)
\* how long the client may sit unused between two calls, in ticks
CachePeriods == {Seconds(60), Seconds(61), Seconds(240)}

\* what a discovery fetch of these calls gets
CacheDiscoveryOutcomes ==
    {[kind |-> "json", data |-> tools_small], [kind |-> "json", data |-> tools_big],
     [kind |-> "json", data |-> tools_empty_object],
     [kind |-> "fail", exc |-> "ConnectionError"]}

\* lines 610-621 under @st.cache_resource: the body runs for the first
\* session only; every session is handed the object then constructed
init_clients ==
    /\ \E s \in Sessions : session_client[s] = 0
    /\ \E s \in Sessions :
        /\ session_client[s] = 0
        /\ \A o \in 1..(s - 1) : session_client[o] # 0
        /\ IF cache_resource = 0
           THEN /\ cache_resource' = 1
                /\ tools_cache' = None
                /\ cache_timestamp' = 0
           ELSE UNCHANGED <<cache_resource, tools_cache, cache_timestamp>>
        /\ session_client' = [session_client EXCEPT ![s] = cache_resource']
    /\ UNCHANGED <<now, retryVars, sessionVars, handlerVars, actor, discovery,
                   last_tools_info, extractVars>>

\* a session's script calls get_dynamic_tools on its client: without
\* force_refresh (line 472), or with it (the buttons of lines 326-327 and
\* 355-356)
CallDiscovery ==
    /\ \E s \in Sessions : session_client[s] # 0
    /\ \E s \in Sessions, force_refresh \in BOOLEAN, disc \in CacheDiscoveryOutcomes :
        LET r == get_dynamic_tools(tools_cache, cache_timestamp, now, force_refresh, disc)
        IN  /\ session_client[s] # 0
            /\ actor' = s
            /\ tools_cache' = r.cache
            /\ cache_timestamp' = r.timestamp
            /\ discovery' = Discovery("get_dynamic_tools", force_refresh, tools_cache,
                                      cache_timestamp, now, disc, r)
    /\ UNCHANGED <<now, retryVars, sessionVars, handlerVars, cache_resource,
                   session_client, last_tools_info, extractVars>>

\* a session's script calls get_tools_info on its client (lines 310, 570)
GetToolsInfo ==
    /\ \E s \in Sessions : session_client[s] # 0
    /\ \E s \in Sessions, disc \in CacheDiscoveryOutcomes :
        LET r == get_tools_info(tools_cache, cache_timestamp, now, disc)
        IN  /\ session_client[s] # 0
            /\ actor' = s
            /\ tools_cache' = r.cache
            /\ cache_timestamp' = r.timestamp
            /\ discovery' = Discovery("get_tools_info", FALSE, tools_cache,
                                      cache_timestamp, now, disc,
                                      [ret |-> r.tools_data, sent |-> r.sent])
            /\ last_tools_info' = Info(r)
    /\ UNCHANGED <<now, retryVars, sessionVars, handlerVars, cache_resource, session_client,
                   extractVars>>

\* time passing between two calls
CacheTick ==
    /\ ticks < MaxTicks
    /\ \E d \in CachePeriods : now' = now + d
    /\ ticks' = ticks + 1
    /\ UNCHANGED <<retryVars, clientVars, sessionVars, pc, user_input, tool_schema,
                   result, net, routes, processVars, extractVars>>

\* before any session has opened
InitCache ==
    /\ InitIdle
    /\ cache_resource = 0
    /\ session_client = [s \in Sessions |-> 0]
    /\ actor = 0
    /\ discovery = NoDiscovery
    /\ last_tools_info = NoInfo
    /\ now = StartTime
    /\ use_fallback_mode = FALSE
    /\ max_retries = 0
    /\ backoff_factor = DefaultBackoff
    /\ attempt = 0
    /\ w_pc = "idle"
    /\ w_result = RetNone
    /\ calls = 0
    /\ sleeps = <<>>
    /\ outcomes = <<>>

NextCache ==
    \/ init_clients
    \/ CallDiscovery
    \/ GetToolsInfo
    \/ CacheTick

SpecCache == InitCache /\ [][NextCache]_vars

(***************************************************************************)
(* The extraction of lines 537-562 applied to texts in which a model has   *)
(* written one JSON object: bare, or in a fenced block.                    *)
(***************************************************************************)
\* largest number of members of the object written
MaxMembers == 2

k_action == <<"a","c","t","i","o","n">>
k_tool == <<"t","o","o","l">>
k_parameters == <<"p","a","r","a","m","e","t","e","r","s">>
k_explanation == <<"e","x","p","l","a","n","a","t","i","o","n">>
k_title == <<"t","i","t","l","e">>
KeyNames == <<k_action, k_tool, k_parameters, k_explanation>>

\* values of the members: strings with braces, quotes, backslashes, line
\* breaks and fences in them, a literal, a number, an array, objects
MemberValues ==
    {Str(<<>>), Str(<<"h","i">>), Str(<<"}">>), Str(<<"{", QUOTE>>),
     Str(<<BACKSLASH, "\n">>), Str(fence), Lit(lit_null), Num(<<"4","2">>),
     Arr(<<Str(<<"]">>)>>), Obj(<<>>), Obj(<<Member(k_title, Str(<<"}">>))>>)}

JsonObjects ==
    {Obj([i \in 1..Len(vs) |-> Member(KeyNames[i], vs[i])]) :
        vs \in UNION {[1..n -> MemberValues] : n \in 0..MaxMembers}}

\* how the object is wrapped, and the white space around the whole text
Wraps == {"json", "bare", "plain"}
Pads == {<<>>, <<" ", "\n">>}
Wrapped(wrap, text) ==
    CASE wrap = "json" -> Fenced(<<"j","s","o","n">>, text)
      [] wrap = "bare" -> Fenced(<<>>, text)
      [] wrap = "plain" -> text

\* lines 537-562 for a text: the parsed value, or the exception
ParseAnalysis(analysis) ==
    LET cleaned == CleanAnalysis(analysis)
        loaded == json_loads(cleaned.text)
    IN  IF cleaned.raised THEN [kind |-> "IndexError"]
        ELSE IF loaded.raised THEN [kind |-> "JSONDecodeError"]
        ELSE [kind |-> "parsed", value |-> loaded.value]

\* call_gemini_with_retry returns the text in which the model wrote an object
ModelWrites ==
    /\ pc = "idle"
    /\ \E O \in JsonObjects, style \in Styles, wrap \in Wraps, pad \in Pads :
        /\ model_object' = [object |-> O, style |-> style, wrap |-> wrap, pad |-> pad]
        /\ w_result' = RetText(Strip(pad \o Wrapped(wrap, json_dumps(O, style, 0)) \o pad))
    /\ w_pc' = "returned"
    /\ pc' = "model"
    /\ UNCHANGED <<now, max_retries, backoff_factor, attempt, calls, sleeps, outcomes,
                   clientVars, sessionVars, user_input, tool_schema, result, net, routes,
                   ticks, processVars, parsed_value>>

\* lines 537-562
ExtractObject ==
    /\ pc = "model"
    /\ w_pc = "returned"
    /\ parsed_value' = ParseAnalysis(w_result.text)
    /\ pc' = "done"
    /\ UNCHANGED <<now, retryVars, clientVars, sessionVars, user_input, tool_schema,
                   result, net, routes, ticks, processVars, model_object>>

NextExtract ==
    \/ ModelWrites
    \/ ExtractObject

SpecExtract == Init /\ [][NextExtract]_vars

(***************************************************************************)
(* Properties of with_retry (SpecRetry).                                   *)
(***************************************************************************)

IsErr(o) == o.kind = "err"
RateLimitFailure(o) == IsErr(o) /\ IsRateLimit(o.msg)

\* C2: an operation whose first failure is not rate-limit-classified is
\* invoked once more and never again: when the first error of the wrapped
\* operation carries none of the three markers, wrapper raises that error at
\* once, with no retry after it and no sleep, for every max_retries >= 1.
C2_NonRateLimitPropagates ==
    \A k \in 1..Len(outcomes) :
        (/\ IsErr(outcomes[k])
         /\ ~ Contains(Lower(outcomes[k].msg), kw_429)
         /\ ~ Contains(Lower(outcomes[k].msg), kw_quota_exceeded)
         /\ ~ Contains(Lower(outcomes[k].msg), kw_rate_limit))
        => /\ w_pc = "raised"
           /\ w_result = Raised(outcomes[k].msg)
           /\ k = Len(outcomes)
           /\ calls = k
           /\ Len(sleeps) = k - 1
           /\ (k = 1 => calls = 1 /\ sleeps = <<>> /\ attempt = 0 /\ now = StartTime)

C2_Witness ==
    /\ max_retries = MaxRetries
    /\ Len(outcomes) = 1
    /\ outcomes[1] = [kind |-> "err", msg |-> msg_rate_space]
    /\ w_pc = "raised"

RECURSIVE SumSeq(_)
SumSeq(q) == IF q = <<>> THEN 0 ELSE Head(q) + SumSeq(Tail(q))

\* the sum of backoff_factor^i for i = 0..k-1, in ticks
RECURSIVE SumPowers(_, _)
SumPowers(bf, k) ==
    IF k = 0 THEN 0
    ELSE SumPowers(bf, k - 1) + ((bf[1] ^ (k - 1)) * TimeScale) \div (bf[2] ^ (k - 1))

\* C3: k rate-limit failures (k < max_retries) followed by a success: wrapper
\* returns the (stripped) success value after k + 1 invocations and k sleeps,
\* and the sleep before retry i (i = 0..k-1) lasts at least backoff_factor^i
\* seconds.
C3_RetriesThenSuccess ==
    \A k \in 0..MaxRetries :
        (/\ Len(outcomes) = k + 1
         /\ \A i \in 1..k : RateLimitFailure(outcomes[i])
         /\ outcomes[k + 1].kind = "ok")
        => /\ k < max_retries
           /\ w_pc = "returned"
           /\ w_result = RetText(Strip(outcomes[k + 1].text))
           /\ calls = k + 1
           /\ Len(sleeps) = k
           /\ now - StartTime = SumSeq(sleeps)
           /\ now - StartTime >= SumPowers(backoff_factor, k)
           /\ \A i \in 0..(k - 1) :
                sleeps[i + 1] * (backoff_factor[2] ^ i)
                    >= (backoff_factor[1] ^ i) * TimeScale

C3_Witness ==
    /\ Len(outcomes) = MaxRetries
    /\ \A i \in 1..(MaxRetries - 1) : RateLimitFailure(outcomes[i])
    /\ outcomes[MaxRetries].kind = "ok"
    /\ w_pc = "returned"
    /\ Len(sleeps) = MaxRetries - 1

\* C4: an operation that fails with a rate-limit error on every attempt is
\* invoked max_retries times, wrapper sleeps max_retries - 1 times, never
\* after the last failure, and returns the RateLimited value; it does not
\* raise.
C4_ExhaustionReturnsSentinel ==
    (/\ outcomes # <<>>
     /\ \A i \in 1..Len(outcomes) : RateLimitFailure(outcomes[i]))
    => /\ w_pc # "raised"
       /\ Len(outcomes) <= max_retries
       /\ calls = Len(outcomes)
       /\ IF Len(outcomes) = max_retries
          THEN /\ w_pc = "returned"
               /\ w_result = RetDict(RateLimited)
               /\ calls = max_retries
               /\ Len(sleeps) = max_retries - 1
          ELSE /\ w_pc = "running"
               /\ Len(sleeps) = Len(outcomes)

C4_Witness ==
    /\ max_retries = MaxRetries
    /\ Len(outcomes) = MaxRetries
    /\ \A i \in 1..Len(outcomes) : RateLimitFailure(outcomes[i])
    /\ w_pc = "returned"

(***************************************************************************)
(* Properties of process_fallback_request (SpecFallback).                  *)
(***************************************************************************)
FallbackSent(tool_name, parameters) ==
    <<[req |-> Post(tool_name, parameters), at |-> "fallback"]>>

\* the utterance is a create phrase followed by nothing but colons and blanks
NoTitleText(u) ==
    \E ph \in {ph_create_task, ph_add_task, ph_new_task} :
        /\ MatchAt(Lower(u), 1, ph)
        /\ \A i \in (Len(ph) + 1)..Len(u) : u[i] \in {":", " "}

\* C5: an utterance that matches the create rule and supplies no title text,
\* such as "create task:", is answered by the Chat that asks for a title, and
\* nothing is sent to the backend.
C5_NoTitleAsksForTitle ==
    (pc = "done" /\ NoTitleText(user_input))
        => /\ result = AskForTitle
           /\ result.action = "chat"
           /\ net = <<>>

\* the utterance is "create task: " followed by the title T, the phrase in
\* any letter case
CreateColonForm(u, T) ==
    /\ Len(u) = Len(ph_create_task) + 2 + Len(T)
    /\ Lower(SubSeq(u, 1, Len(ph_create_task))) = ph_create_task
    /\ u[Len(ph_create_task) + 1] = ":"
    /\ u[Len(ph_create_task) + 2] = " "
    /\ SubSeq(u, Len(ph_create_task) + 3, Len(u)) = T

\* C6: "create task: Buy milk", the phrase in any letter case, sends exactly
\* one create_task whose parameters are {title: "Buy milk", priority:
\* "medium"}.
C6_CreateSendsTheTitle ==
    (pc = "done" /\ CreateColonForm(user_input, ck_buy_milk))
        => net = FallbackSent("create_task", CreateParams(ck_buy_milk, "medium"))

\* C7: the rules are tried in the order list, create, stats, help and the
\* first that matches wins: a list keyword with 'task' sends list_tasks with
\* no parameters whatever else the utterance contains; otherwise a create
\* keyword with 'task' takes the create rule (the request for a title, or one
\* create_task); otherwise a stats keyword sends get_task_stats with no
\* parameters; otherwise the help Chat is returned and nothing is sent.  At
\* most one request is sent per utterance.
C7_FirstMatchingRuleWins ==
    pc = "done" =>
        LET low == Lower(user_input)
            has(w) == Contains(low, w)
            list == (has(kw_list) \/ has(kw_show) \/ has(kw_display) \/ has(kw_all))
                        /\ has(kw_task)
            create == (has(kw_create) \/ has(kw_add) \/ has(kw_new)) /\ has(kw_task)
            stats == has(kw_stats) \/ has(kw_statistics) \/ has(kw_summary)
        IN  /\ Len(net) <= 1
            /\ list => net = FallbackSent("list_tasks", NoParams)
            /\ (~ list /\ create) =>
                    \/ net = <<>> /\ result = AskForTitle
                    \/ /\ Len(net) = 1
                       /\ net[1].req.tool = "create_task"
                       /\ net[1].req.json.keys = {"title", "priority"}
                       /\ net[1].req.json.priority = "medium"
            /\ (~ list /\ ~ create /\ stats) => net = FallbackSent("get_task_stats", NoParams)
            /\ (~ list /\ ~ create /\ ~ stats) => net = <<>> /\ result = FallbackHelp

\* an utterance with a list keyword, a create keyword and a stats keyword
C7_Witness ==
    /\ pc = "done"
    /\ user_input = kw_all \o ph_create_task \o kw_stats
    /\ net = FallbackSent("list_tasks", NoParams)

\* C8: whatever the utterance and whatever the backend does with the request
\* (a reply, a reply with an error key, a connection failure, a timeout, an
\* HTTP error), process_fallback_request returns a dict with an action tag
\* and a response text; no exception leaves it.
C8_FallbackNeverRaises ==
    pc = "done" =>
        /\ ~ result.raised
        /\ {"action", "response"} \subseteq result.keys
        /\ result.action \in {"tool_result", "error", "chat"}
        /\ result.response.fmt # ""

\* a request that timed out
C8_Witness ==
    /\ pc = "done"
    /\ Len(net) = 1
    /\ result.action = "error"
    /\ result.response.cause.e = "Timeout"

(***************************************************************************)
(* Properties of the router (Spec).                                        *)
(***************************************************************************)
SentAt(part) == {i \in 1..Len(net) : net[i].at = part}
Posts == {i \in 1..Len(net) : net[i].req.method = "POST"}

\* C1: when call_gemini_with_retry has used up its retries on rate-limit
\* errors and returned the RateLimited value, the router returns a Chat
\* notice, not an Error, and sends no tool call.
C1_RateLimitedYieldsChat ==
    (pc = "done" /\ w_pc = "returned" /\ w_result = RetDict(RateLimited))
        => /\ ~ result.raised
           /\ result.action = "chat"
           /\ Posts = {}

\* the tool_call object extracted from the text the model returned, if any
Extracted ==
    IF w_pc = "returned" /\ w_result.kind = "text"
    THEN JsonLoads(CleanAnalysis(w_result.text).text)
    ELSE [kind |-> "none"]
ExtractedToolCall ==
    /\ Extracted.kind = "object"
    /\ Extracted.object.action = "tool_call"

NamesOf(schema) == {schema.names[i] : i \in 1..Len(schema.names)}

\* C9: in dynamic mode, a tool name that is not among the descriptor names
\* of the dynamic schema in effect is rejected with the validation error,
\* and neither the validation nor the rejection sends anything to the
\* backend: no POST /tools/{name} and no GET /tools, whatever the age of the
\* cache.
C9_RejectionSendsNothing ==
    (/\ pc = "done"
     /\ use_dynamic_tools
     /\ tool_schema.kind = "dynamic"
     /\ ExtractedToolCall
     /\ Extracted.object.tool \notin NamesOf(tool_schema))
    => /\ result.action = "error"
       /\ result.response.fmt = "Tool '{tool_name}' not available"
       /\ SentAt("validation") = {}
       /\ SentAt("dispatch") = {}

\* C10: a discovery fetch made by get_tool_schema either stores a reply that
\* has a 'tools' list, or fails (connection, timeout, malformed reply) and
\* then leaves the cache and its timestamp as they were and hands the static
\* schema to the caller; the schema handed over always lists tools.
C10_FailedDiscoveryFallsBackToStatic ==
    [][(pc = "idle" /\ pc' = "model" /\ SentAt("get_tool_schema")' # {})
        => /\ \/ /\ "tools" \in tools_cache'.keys
                 /\ cache_timestamp' = now
                 /\ tool_schema'.kind = "dynamic"
              \/ /\ tools_cache' = tools_cache
                 /\ cache_timestamp' = cache_timestamp
                 /\ tool_schema' = get_static_tool_schema
           /\ tool_schema'.names # <<>>]_vars

\* the rejection of line 575
Rejected ==
    /\ result.action = "error"
    /\ result.response.fmt = "Tool '{tool_name}' not available"
\* the requests of the current utterance that post the extracted tool
Forwarded ==
    {i \in SentAt("dispatch") :
        /\ net[i].req.method = "POST"
        /\ net[i].req.tool = Extracted.object.tool}

\* C21: whenever the static schema is the one rendered into the prompt, in
\* static mode and also in dynamic mode after a failed discovery, no
\* membership check is made: validation sends nothing, the tool is not
\* rejected as unavailable, and the extracted tool name is posted to the
\* backend.
C21_StaticSchemaSkipsMembershipCheck ==
    (/\ pc = "done"
     /\ ExtractedToolCall
     /\ tool_schema = get_static_tool_schema)
    => /\ SentAt("validation") = {}
       /\ ~ Rejected
       /\ Forwarded # {}

\* C22: within one route call in dynamic mode, the tool extracted is
\* validated against the names of the schema that was rendered into the
\* prompt: between the rendering and the validation no GET /tools is sent
\* and the cache and its timestamp do not change, even when the ttl runs
\* out during the model call and its backoff sleeps; the tool is rejected
\* exactly when its name is not among the names rendered.
C22_ValidatedAgainstRenderedSchema ==
    [][(/\ pc = "model"
        /\ pc' = "done"
        /\ use_dynamic_tools
        /\ tool_schema.kind = "dynamic"
        /\ ExtractedToolCall)
       => /\ SentAt("validation")' = {}
          /\ tools_cache' = tools_cache
          /\ cache_timestamp' = cache_timestamp
          /\ Rejected' <=> (Extracted.object.tool \notin NamesOf(tool_schema))]_vars

(***************************************************************************)
(* Properties of the schema cache (SpecCache).                             *)
(***************************************************************************)
\* the age of the cache at the last call of get_dynamic_tools
AgeAtCall == discovery.at - discovery.timestamp
\* that call was made with a schema in the cache
SchemaWasCached == discovery.called /\ discovery.cached \in WellFormedTools
\* that call fetched, and the fetch brought a schema
FetchedSchema ==
    /\ discovery.called
    /\ discovery.sent = <<GetTools>>
    /\ discovery.outcome = "json"
    /\ discovery.ret \in WellFormedTools
ByToolsInfo == discovery.by = "get_tools_info"

\* C11: with a schema in the cache, a call of get_dynamic_tools without
\* force_refresh at an age below the ttl of 300 s sends nothing and returns
\* the cached schema, and get_tools_info at the age of 61 s reports
\* 'cached'; at the age of 300 s or more (301 s for one) the call fetches;
\* a call with force_refresh fetches at any age; a fetch that brings a
\* schema replaces the cache, sets the timestamp to the time of the call,
\* and get_tools_info then reports 'fresh'.
C11_CacheServedUntilTtl ==
    /\ (SchemaWasCached /\ ~ discovery.force_refresh /\ AgeAtCall < Seconds(CACHE_TTL))
        => /\ discovery.sent = <<>>
           /\ discovery.ret = discovery.cached
           /\ tools_cache = discovery.cached
           /\ cache_timestamp = discovery.timestamp
           /\ (ByToolsInfo /\ AgeAtCall = Seconds(61))
                => last_tools_info.cache_status = "cached"
    /\ (SchemaWasCached /\ ~ discovery.force_refresh /\ AgeAtCall >= Seconds(CACHE_TTL))
        => discovery.sent = <<GetTools>>
    /\ (discovery.called /\ discovery.force_refresh) => discovery.sent = <<GetTools>>
    /\ FetchedSchema
        => /\ tools_cache = discovery.ret
           /\ cache_timestamp = discovery.at
           /\ ByToolsInfo => last_tools_info.cache_status = "fresh"

\* get_tools_info re-fetched a schema that was 301 s old
C11_Witness ==
    /\ SchemaWasCached
    /\ ByToolsInfo
    /\ AgeAtCall = Seconds(301)
    /\ FetchedSchema
    /\ discovery.ret # discovery.cached
    /\ last_tools_info.cache_status = "fresh"

\* C12: the status that get_tools_info reports depends only on whether a
\* schema is cached and on its age: 'failed' is reported only when nothing is
\* cached, and with a schema in the cache the status is 'fresh' below 60 s,
\* 'cached' from 60 s to below the ttl and 'stale' from the ttl on, also when
\* the attempt to fetch the schema again has failed.
C12_StatusDerivedFromAge ==
    (discovery.called /\ ByToolsInfo)
        => /\ last_tools_info.cache_status = "failed" => ~ Truthy(tools_cache)
           /\ Truthy(tools_cache)
                => last_tools_info.cache_status = CacheStatus(discovery.at - cache_timestamp)

\* what a session sees of the schema cache: the fields of the client it was
\* handed, and the status derived from them
ObservedCache(s) ==
    IF session_client[s] = cache_resource
    THEN <<tools_cache, cache_timestamp,
           IF Truthy(tools_cache) THEN CacheStatus(now - cache_timestamp) ELSE "failed">>
    ELSE <<None, 0, "failed">>

\* C17: each session has a schema cache of its own: a discovery fetch or a
\* forced refresh made by the script of one session changes nothing of the
\* cache, the timestamp and the cache status that another open session
\* sees.
C17_SessionsHaveOwnCaches ==
    [][\A a, s \in Sessions :
        (/\ actor' = a
         /\ discovery' # discovery
         /\ s # a
         /\ session_client[s] # 0)
        => ObservedCache(s)' = ObservedCache(s)]_vars

(***************************************************************************)
(* Properties of the extraction (SpecExtract).                             *)
(***************************************************************************)
\* C13: whatever JSON object the model writes, in a block fenced with the
\* json tag, in a block with a bare fence, or with no fence at all, and
\* however the object is laid out, lines 537-562 read back an object equal
\* to the one written.
C13_ExtractionRoundTrips ==
    pc = "done" => parsed_value = [kind |-> "parsed", value |-> model_object.object]

\* an indented object in a json fence whose members hold a fence and a
\* nested object with a closing brace in a string
C13_Witness ==
    /\ pc = "done"
    /\ model_object.wrap = "json"
    /\ model_object.style = "indent"
    /\ model_object.object =
            Obj(<<Member(k_action, Str(fence)),
                  Member(k_tool, Obj(<<Member(k_title, Str(<<"}">>))>>))>>)
    /\ parsed_value.kind = "parsed"

(***************************************************************************)
(* Properties of lines 536-608 (SpecAfterModel).                           *)
(***************************************************************************)
\* C14: when the text of the model cannot be reduced to one JSON object (it
\* is no JSON text, or holds more than one value, or its value is an array,
\* a string, a number or null), the router returns a dict of action 'error'
\* with a response, raises nothing, and sends no tool call.
C14_ParseFailureYieldsError ==
    (pc = "done" /\ w_result.kind = "text" /\ Extracted.kind # "object")
        => /\ ~ result.raised
           /\ result.action = "error"
           /\ {"action", "response"} \subseteq result.keys
           /\ result.response.fmt # ""
           /\ Posts = {}

\* the model wrote an array
C14_Witness ==
    /\ pc = "done"
    /\ w_result = RetText(txt_items)
    /\ result.action = "error"
    /\ result.response.fmt = "Error processing request: {e}"

\* C15: on the model path a tool_call is sent to the backend only when its
\* 'tool' is present and not empty and, for create_task, its parameters hold
\* a 'title': a tool_call that lacks one of these is rejected with an error
\* and no POST, in static mode and in dynamic mode.
C15_IncompleteToolCallRejected ==
    (/\ pc = "done"
     /\ ExtractedToolCall
     /\ \/ "tool" \notin Extracted.object.keys
        \/ Extracted.object.tool = ""
        \/ /\ Extracted.object.tool = "create_task"
           /\ "title" \notin Extracted.object.parameters.keys)
    => /\ Posts = {}
       /\ result.action = "error"

\* C18: the response text is made from the reply of the backend by a fixed
\* precedence: a reply with an 'error' key gives the error text, also when
\* it has a 'message' too; otherwise a reply with a 'message' key gives that
\* message, with the task details after it exactly when the reply has a
\* 'task'; otherwise the generic success text; the reply itself is handed on
\* in 'tool_result'.
C18_ReplyNormalizedByPrecedence ==
    (pc = "done" /\ result.action = "tool_result")
        => LET reply == result.tool_result
           IN  /\ "tool_result" \in result.keys
               /\ "error" \in reply.keys
                    => result.response = [fmt |-> "Error: {error}", error |-> reply.error]
               /\ ("error" \notin reply.keys /\ "message" \in reply.keys)
                    => result.response =
                            [fmt |-> "{message}", message |-> reply.message,
                             details |-> "task" \in reply.keys]
               /\ ("error" \notin reply.keys /\ "message" \notin reply.keys)
                    => result.response = [fmt |-> "Operation completed successfully!"]

\* the number of POST requests among the requests of a handler
PostsIn(requests) == Cardinality({i \in 1..Len(requests) : requests[i].req.method = "POST"})

\* C20: a tool call is never tried again: the handling of one text of the
\* model sends at most one POST, and when the POST fails (no connection,
\* timeout, HTTP error, also the status 429, whose text carries a rate-limit
\* marker) the router returns the dict of action 'error' that reports the
\* failure, raises nothing and sends no second POST.
C20_ToolCallNotRetried ==
    [][(pc = "model" /\ pc' = "done")
        => /\ PostsIn(net') <= 1
           /\ ~ result'.raised
           /\ \A disc \in DiscoveryOutcomes, bo \in BackendOutcomes :
                LET r == AfterModel(w_result, use_dynamic_tools, tools_cache,
                                    cache_timestamp, now, disc, bo)
                IN  (bo.kind = "fail" /\ PostsIn(r.net) > 0)
                        => /\ PostsIn(r.net) = 1
                           /\ ~ r.result.raised
                           /\ r.result.action = "error"
                           /\ r.result.response.fmt = "Failed to execute tool: {e}"
                           /\ r.result.response.cause.e = bo.exc]_vars

\* the POST was answered with the status 429
C20_Witness ==
    /\ pc = "done"
    /\ PostsIn(net) = 1
    /\ result.action = "error"
    /\ result.response.fmt = "Failed to execute tool: {e}"
    /\ result.response.cause.e = "429 Client Error: Too Many Requests"
    /\ IsRateLimit(<<"4","2","9"," ","C","l","i","e","n","t"," ","E","r","r","o","r">>)

(***************************************************************************)
(* Further properties of the router (Spec).                                *)
(***************************************************************************)
\* the path that produced the result of the utterance being handled
PathTaken ==
    IF use_fallback_mode THEN "Fallback"
    ELSE IF tool_schema.kind = "dynamic" THEN "Dynamic"
    ELSE "Static"

\* C16: every dict the router returns, on the fallback path and on the model
\* path (chat, error, rejection, parse failure, tool result), has a 'mode'
\* entry, and the entry names the path that was taken.
C16_ResultTaggedWithPath ==
    pc = "done" => /\ "mode" \in result.keys
                   /\ result.mode = PathTaken

\* C19: with use_fallback_mode set, routing an utterance is the call of
\* process_fallback_request and nothing else: the model path is never
\* entered, the wrapper is not entered and the model not called, no schema
\* is fetched or rendered, the cache is left alone, and the dict returned
\* and the request sent are those of process_fallback_request.
C19_FallbackBypassesModel ==
    [][use_fallback_mode
        => /\ pc' # "model"
           /\ (pc = "idle" /\ pc' = "done")
                => /\ UNCHANGED <<retryVars, clientVars, tool_schema, now>>
                   /\ w_pc' = "idle"
                   /\ calls' = 0
                   /\ tool_schema' = NoSchema
                   /\ \A i \in 1..Len(net') : net'[i].req # GetTools
                   /\ \E bo \in BackendOutcomes :
                        /\ result' = process_fallback_request(user_input', bo).result
                        /\ net' = Tag(process_fallback_request(user_input', bo).sent,
                                      "fallback")]_vars

\* in fallback mode, a task was created
C19_Witness ==
    /\ pc = "done"
    /\ use_fallback_mode
    /\ user_input = utt_create_buy_milk
    /\ result.action = "tool_result"
    /\ Len(net) = 1
    /\ w_pc = "idle"

(***************************************************************************)
(* Properties of the chat loop (SpecSession).                              *)
(***************************************************************************)
\* what the router returns for the RateLimited value of the wrapper: the
\* outer except of lines 606-608 catches analysis.strip() on a dict
RateLimitedResponse ==
    ErrorProcessing([fmt |-> "object has no attribute 'strip'"]).response
\* an earlier utterance of the session ended with that response
AnsweredRateLimited ==
    \E i \in 1..Len(messages) :
        /\ messages[i].role = "assistant"
        /\ messages[i].content.response = RateLimitedResponse

\* C23: no step of the session changes use_fallback_mode; the path an
\* utterance takes is decided by the value of the flag when the call
\* starts, the fallback matcher when it is set and the language model when
\* it is not; and an utterance typed after one that ended in the
\* RateLimited outcome is sent to the language model again.
C23_RoutingKeepsFallbackFlag ==
    [][/\ use_fallback_mode' = use_fallback_mode
       /\ (pc = "idle" /\ pc' # "idle")
            => /\ use_fallback_mode => (pc' = "done" /\ w_pc' = "idle")
               /\ ~ use_fallback_mode => (pc' = "model" /\ w_pc' = "running")
               /\ AnsweredRateLimited => (pc' = "model" /\ w_pc' = "running")]_vars

\* the second utterance of a session is with the language model, the first
\* one having ended in the RateLimited outcome
C23_Witness ==
    /\ pc = "model"
    /\ w_pc = "running"
    /\ ~ use_fallback_mode
    /\ AnsweredRateLimited
    /\ messages[Len(messages)].role = "user"

====
